---- MODULE Spec2Model ----
(***************************************************************************)
(* The connection hub of pkg/websocket: the registry (id map, shard table, *)
(* user index, group index, connection counter), the control loop that     *)
(* consumes the register and unregister channels, the per-connection       *)
(* reader thread, and callers of Connection.JoinGroup / LeaveGroup; then   *)
(* message dispatch (by user, by group, broadcast through the worker       *)
(* pool), the backpressure policy of trySend, the per-connection writer    *)
(* and the heartbeat scan; then shutdown (Hub.Close), configuration        *)
(* validation, the handling of inbound frames and Handler.HealthCheck.     *)
(***************************************************************************)
EXTENDS Integers, Sequences, FiniteSets, TLC

\* ------------------------------------------------------------------ bounds
\* Number of connection objects HandleWebSocket creates in one behaviour.
NumConns == 2

\* Config.MaxConnections of the hub under test (DefaultConfig sets 100000).
MaxConnections == 1

\* Config.ShardCount of the hub under test (DefaultConfig sets 16).
ShardCount == 2

\* A reader starts handleJoinGroup / handleLeaveGroup while fewer than
\* MaxGroupOps group operations (by readers and by callers of the Connection
\* methods together) were started.
MaxGroupOps == 2

\* A caller of Connection.JoinGroup / LeaveGroup starts a call while fewer
\* than MaxApiOps group operations were started.
MaxApiOps == 3

\* Capacity of the register and unregister channels.
RegisterCap == 1000
UnregisterCap == 1000

\* Config.MessageBufferSize: capacity of a connection's Send channel
\* (DefaultConfig sets 256).
MessageBufferSize == 1

\* Config.MessageQueueSize: capacity of hub.broadcast and of hub.broadcastJobs
\* (DefaultConfig sets 1000).
MessageQueueSize == 1

\* Number of messages handed to hub.broadcast in one behaviour.
MaxMessages == 3

\* Config.ConnectionTimeout, in clock units (DefaultConfig sets 60 s).
ConnectionTimeout == 1

\* The wall clock stops advancing at MaxTime.
MaxTime == 2

\* Sizes and counts of a Config given to ValidateConfig range over 0..MaxSize,
\* its durations over 0..MaxDuration.
MaxSize == 1
MaxDuration == 2

\* The largest MaxConnections a HealthCheck is asked about.
MaxLimit == 10

\* The largest number of arguments of a MergeConfig call.
MaxConfigs == 2

\* The largest Config.BroadcastWorkerCount: the broadcast workers a hub can
\* start (DefaultConfig sets 32).
NumWorkers == 2

\* The compression levels ValidateConfig accepts.
MinCompressionLevel == -2
MaxCompressionLevel == 9

Conns == 1 .. NumConns
GroupNames == {"g1"}
\* The groups callers of Connection.JoinGroup / LeaveGroup name.
ApiGroupNames == GroupNames \cup {"g2"}
Shards == 0 .. (IF ShardCount <= 1 THEN 0 ELSE ShardCount - 1)

\* The userID HandleWebSocket is called with for connection object k; beyond
\* the third the connections are anonymous.
UserID(k) == IF k = 1 \/ k = 3 THEN "u1" ELSE IF k = 2 THEN "u2" ELSE ""
UserIDs == {UserID(k) : k \in Conns}

\* ------------------------------------------------------------ Go maps
\* m[key] = v
MapPut(m, key, v) == [x \in (DOMAIN m) \cup {key} |-> IF x = key THEN v ELSE m[x]]
\* delete(m, key)
MapDelete(m, key) == [x \in (DOMAIN m) \ {key} |-> m[x]]
EmptyMap == [x \in {} |-> 0]

\* ------------------------------------------------------ connection ids
RECURSIVE Decimal(_)
\* fmt's %d of a non-negative integer, as ASCII bytes
Decimal(n) == IF n < 10 THEN <<48 + n>> ELSE Decimal(n \div 10) \o <<48 + (n % 10)>>

\* generateConnectionID: "conn_" followed by the clock reading t
generateConnectionID(t) == <<99, 111, 110, 110, 95>> \o Decimal(t)

\* Every id a clock reading 1..NumConns can produce.
IDs == {generateConnectionID(t) : t \in 1 .. NumConns}

\* ----------------------------------------------------------- shardIndex
RECURSIVE Xor(_, _, _)
\* bitwise exclusive or of two n-bit numbers
Xor(a, b, n) == IF n = 0 THEN 0
                ELSE (((a % 2) + (b % 2)) % 2) + 2 * Xor(a \div 2, b \div 2, n - 1)

\* A 32-bit hash value is kept as <<high 16 bits, low 16 bits>>.
\* FNV offset basis 2166136261 = 0x811C9DC5.
FnvOffset == <<33052, 40389>>

\* One round of FNV-1a: h ^= byte; h *= 16777619 (mod 2^32).
\* 16777619 = 2^24 + 403.
FnvStep(h, byte) ==
    LET lo == ((h[2] \div 256) * 256) + Xor(h[2] % 256, byte, 8)
        p  == lo * 403
    IN  <<((h[1] * 403) + (p \div 65536) + ((lo % 256) * 256)) % 65536, p % 65536>>

RECURSIVE Fnv32a(_, _)
Fnv32a(h, bytes) == IF bytes = <<>> THEN h
                    ELSE Fnv32a(FnvStep(h, Head(bytes)), Tail(bytes))

\* (hi * 2^16 + lo) % n
Mod32(h, n) == ((h[1] % n) * (65536 % n) + (h[2] % n)) % n

shardIndex(id) == IF ShardCount <= 1 THEN 0
                  ELSE Mod32(Fnv32a(FnvOffset, id), ShardCount)

\* ------------------------------------------------------------ variables
VARIABLES
    connections,       \* Hub.connections: id -> connection object
    connectionCount,   \* Hub.connectionCount
    shardConns,        \* Hub.shardConns: shard -> (id -> connection object)
    userConnections,   \* Hub.userConnections: user id -> set of ids
    groupConnections,  \* Hub.groupConnections: group -> set of ids
    register,          \* Hub.register channel
    unregister,        \* Hub.unregister channel
    connID,            \* Connection.ID (<<>> while the object is not created)
    Groups,            \* Connection.Groups
    transportClosed,   \* Connection.Conn has been closed
    sendClosed,        \* Connection.Send has been closed
    readerPc,          \* where each connection's readPump stands
    apiPc,             \* where the caller of JoinGroup / LeaveGroup stands
    clock,             \* the last reading of time.Now().UnixNano()
    panicked,          \* the process died of a Go panic
    groupOps,          \* number of JoinGroup / LeaveGroup calls started
    regRes,            \* history: how the loop's Register of each connection ended
    unregRes,          \* history: how the loop's Unregister of each connection ended
    order,             \* history: shape of the sequence of events processed
    config,            \* Hub.config: DropOnFull, CloseOnBackpressure
    Send,              \* Connection.Send: the payloads queued for the writer
    IsAlive,           \* Connection.IsAlive
    LastPing,          \* Connection.LastPing
    now,               \* time.Now() as the heartbeat sees it
    writerPc,          \* where each connection's writePump stands
    written,           \* what each writePump has written to its transport
    broadcast,         \* Hub.broadcast channel
    broadcastJobs,     \* Hub.broadcastJobs channel
    loopPc,            \* where Hub.run stands
    workerPc,          \* where each broadcastWorker stands
    published,         \* number of messages handed to hub.broadcast so far
    sent,              \* history: <<payload, connection>> for every trySend that enqueued
    dropped,           \* history: <<payload, connection>> for every trySend that gave up
    onDropCalls,       \* history: number of calls of the onDrop callback
    lostJobs,          \* history: <<payload, shard>> for every fanout job not enqueued
    closePc,           \* where the caller of Hub.Close stands
    call,              \* the last call of a function of the package: name, arguments, result
    Metadata           \* Connection.Metadata: the keys set

hubVars  == <<connections, connectionCount, shardConns, userConnections, groupConnections>>
chanVars == <<register, unregister>>
connVars == <<connID, Groups, transportClosed, sendClosed>>
histVars == <<regRes, unregRes, order>>
ctlVars  == <<config, closePc, call, Metadata>>
sendVars == <<Send, writerPc, written>>
liveVars == <<IsAlive, LastPing, now>>
fanVars  == <<broadcast, broadcastJobs, loopPc, workerPc, published,
              sent, dropped, onDropCalls, lostJobs>>
vars == <<hubVars, chanVars, connVars, readerPc, apiPc, clock, panicked, groupOps, histVars,
          ctlVars, sendVars, liveVars, fanVars>>

NoOp == [at |-> "idle", conn |-> 0, g |-> "", member |-> FALSE]

\* No function of the package has been called yet.
NoCall == [fn |-> "none"]

\* The loop waits in its select; the worker waits for a job.
AtSelect == [at |-> "select"]
WorkerIdle == [at |-> "idle"]

\* The broadcast workers, numbered; NewHub starts the first
\* config.BroadcastWorkerCount of them.
Workers == 1 .. NumWorkers

\* DropOnFull and CloseOnBackpressure as DefaultConfig sets them, with a
\* capacity of MaxConnections.
DefaultConfig ==
    [DropOnFull |-> TRUE, CloseOnBackpressure |-> FALSE, MaxConnections |-> MaxConnections,
     EnableGlobalPing |-> FALSE, BroadcastWorkerCount |-> 1]
\* The backpressure configurations of a hub with room for every connection.
Configs ==
    [DropOnFull : BOOLEAN, CloseOnBackpressure : BOOLEAN, MaxConnections : {NumConns},
     EnableGlobalPing : {FALSE}, BroadcastWorkerCount : {1}]
\* The default configuration in either heartbeat mode.
PingModeConfigs ==
    [DropOnFull : {TRUE}, CloseOnBackpressure : {FALSE}, MaxConnections : {MaxConnections},
     EnableGlobalPing : BOOLEAN, BroadcastWorkerCount : {1}]

\* The state NewHub(cfg) leaves behind.
NewHub(cfg) ==
    /\ config = cfg
    /\ closePc = "none"
    /\ call = NoCall
    /\ Metadata = [k \in Conns |-> {}]
    /\ connections = EmptyMap
    /\ connectionCount = 0
    /\ shardConns = [s \in Shards |-> EmptyMap]
    /\ userConnections = EmptyMap
    /\ groupConnections = EmptyMap
    /\ register = <<>>
    /\ unregister = <<>>
    /\ connID = [k \in Conns |-> <<>>]
    /\ Groups = [k \in Conns |-> {}]
    /\ transportClosed = [k \in Conns |-> FALSE]
    /\ sendClosed = [k \in Conns |-> FALSE]
    /\ readerPc = [k \in Conns |-> [at |-> "none", g |-> ""]]
    /\ apiPc = NoOp
    /\ clock = 0
    /\ panicked = FALSE
    /\ groupOps = 0
    /\ regRes = [k \in Conns |-> "none"]
    /\ unregRes = [k \in Conns |-> "none"]
    /\ order = "regs"
    /\ Send = [k \in Conns |-> <<>>]
    /\ IsAlive = [k \in Conns |-> FALSE]
    /\ LastPing = [k \in Conns |-> 0]
    /\ now = 0
    /\ writerPc = [k \in Conns |-> "none"]
    /\ written = [k \in Conns |-> <<>>]
    /\ broadcast = <<>>
    /\ broadcastJobs = <<>>
    /\ loopPc = AtSelect
    /\ workerPc = [w \in Workers |-> WorkerIdle]
    /\ published = 0
    /\ sent = {}
    /\ dropped = {}
    /\ onDropCalls = 0
    /\ lostJobs = {}

Init == NewHub(DefaultConfig)

\* ------------------------------------------------------- HandleWebSocket
\* Builds the Connection (its id from the clock, which may read the same
\* value as the previous call), sends it on hub.register and starts readPump.
\* The connection objects are numbered in the order of the calls.
HandleWebSocket(k) ==
    /\ ~panicked
    /\ readerPc[k].at = "none"
    /\ \A j \in Conns : j < k => readerPc[j].at # "none"
    /\ Len(register) < RegisterCap
    /\ \E t \in {clock, clock + 1} :
          /\ t >= 1
          /\ clock' = t
          /\ connID' = [connID EXCEPT ![k] = generateConnectionID(t)]
    /\ register' = Append(register, k)
    /\ readerPc' = [readerPc EXCEPT ![k] = [at |-> "read", g |-> ""]]
    /\ Send' = [Send EXCEPT ![k] = <<>>]
    /\ IsAlive' = [IsAlive EXCEPT ![k] = TRUE]
    /\ LastPing' = [LastPing EXCEPT ![k] = now]
    /\ writerPc' = [writerPc EXCEPT ![k] = "run"]
    /\ UNCHANGED <<hubVars, unregister, Groups, transportClosed, sendClosed,
                   apiPc, panicked, groupOps, histVars, ctlVars, written, now, fanVars>>

\* ---------------------------------------------------- registerConnection
\* (mutant) the capacity check compares with > instead of >=
AtCapacityOffByOne == connectionCount > config.MaxConnections

\* the capacity check of registerConnection
AtCapacity == connectionCount >= config.MaxConnections

\* (mutant) the rejection forgets conn.Conn.Close()
RejectRegistrationLeavesOpen(conn) ==
    /\ UNCHANGED transportClosed
    /\ UNCHANGED hubVars

\* the branch of registerConnection taken at capacity: conn.Conn.Close(), return
RejectRegistration(conn) ==
    /\ transportClosed' = [transportClosed EXCEPT ![conn] = TRUE]
    /\ UNCHANGED hubVars

\* h.shardConns[sh][conn.ID] = conn, sh = h.shardIndex(conn.ID)
ShardInsert(sc, id, conn) ==
    [sc EXCEPT ![shardIndex(id)] = MapPut(sc[shardIndex(id)], id, conn)]

\* the user-index update of registerConnection
UserIndexAdd(uc, user, id) ==
    IF user # ""
    THEN MapPut(uc, user, (IF user \in DOMAIN uc THEN uc[user] ELSE {}) \cup {id})
    ELSE uc

\* groupConnections[group][id] = true, creating the entry when it is nil
GroupIndexAdd(gc, group, id) ==
    MapPut(gc, group, (IF group \in DOMAIN gc THEN gc[group] ELSE {}) \cup {id})

\* the loop of registerConnection over conn.Groups
GroupIndexAddAll(gc, groups, id) ==
    [g \in (DOMAIN gc) \cup groups |->
        IF g \in groups THEN GroupIndexAdd(gc, g, id)[g] ELSE gc[g]]

registerConnection(conn) ==
    IF AtCapacity
    THEN RejectRegistration(conn)
    ELSE /\ connections' = MapPut(connections, connID[conn], conn)
         /\ connectionCount' = connectionCount + 1
         /\ shardConns' = ShardInsert(shardConns, connID[conn], conn)
         /\ userConnections' = UserIndexAdd(userConnections, UserID(conn), connID[conn])
         /\ groupConnections' = GroupIndexAddAll(groupConnections, Groups[conn], connID[conn])
         /\ UNCHANGED transportClosed

\* -------------------------------------------------- unregisterConnection
\* (mutant) the shard entry is not deleted
ShardRemoveForgotten(sc, id) == sc

\* delete(h.shardConns[sh], conn.ID), sh = h.shardIndex(conn.ID)
ShardRemove(sc, id) ==
    [sc EXCEPT ![shardIndex(id)] = MapDelete(sc[shardIndex(id)], id)]

\* (mutant) the user index keeps the id
UserIndexRemoveForgotten(uc, user, id) == uc

\* the user-index update of unregisterConnection
UserIndexRemove(uc, user, id) ==
    IF user # "" /\ user \in DOMAIN uc
    THEN IF uc[user] \ {id} = {} THEN MapDelete(uc, user)
         ELSE [uc EXCEPT ![user] = uc[user] \ {id}]
    ELSE uc

\* delete(groupConnections[group], id), dropping the entry when it is empty
GroupIndexRemove(gc, group, id) ==
    IF group \in DOMAIN gc
    THEN IF gc[group] \ {id} = {} THEN MapDelete(gc, group)
         ELSE [gc EXCEPT ![group] = gc[group] \ {id}]
    ELSE gc

\* the loop of unregisterConnection over conn.Groups
GroupIndexRemoveAll(gc, groups, id) ==
    [g \in {x \in DOMAIN gc : x \in groups => gc[x] \ {id} # {}} |->
        IF g \in groups THEN gc[g] \ {id} ELSE gc[g]]

\* close(conn.Send): closing a closed channel panics
CloseSend(conn) ==
    /\ sendClosed' = [sendClosed EXCEPT ![conn] = TRUE]
    /\ panicked' = sendClosed[conn]

unregisterConnection(conn) ==
    IF connID[conn] \in DOMAIN connections
    THEN /\ connections' = MapDelete(connections, connID[conn])
         /\ connectionCount' = connectionCount - 1
         /\ shardConns' = ShardRemove(shardConns, connID[conn])
         /\ userConnections' = UserIndexRemove(userConnections, UserID(conn), connID[conn])
         /\ groupConnections' = GroupIndexRemoveAll(groupConnections, Groups[conn], connID[conn])
         /\ CloseSend(conn)
    ELSE UNCHANGED <<hubVars, sendClosed, panicked>>

\* --------------------------------------------------------------- Hub.run
\* The broadcastWorker holds the read lock of shard s from taking a job to
\* finishing it; Lock() on that shard waits meanwhile.
ShardReadLocked(s) ==
    \E w \in Workers : workerPc[w].at # "idle" /\ workerPc[w].shard = s

\* case conn := <-h.register
RunRegister ==
    /\ ~panicked
    /\ loopPc.at = "select"
    /\ register # <<>>
    /\ AtCapacity \/ ~ShardReadLocked(shardIndex(connID[Head(register)]))
    /\ registerConnection(Head(register))
    /\ register' = Tail(register)
    /\ regRes' = [regRes EXCEPT ![Head(register)] =
                      IF AtCapacity THEN "rejected" ELSE "accepted"]
    /\ order' = IF order = "regs" THEN "regs" ELSE "mixed"
    /\ UNCHANGED <<unregister, connID, Groups, sendClosed, readerPc, apiPc, clock,
                   panicked, groupOps, unregRes, ctlVars, sendVars, liveVars, fanVars>>

\* case conn := <-h.unregister
RunUnregister ==
    /\ ~panicked
    /\ loopPc.at = "select"
    /\ unregister # <<>>
    /\ connID[Head(unregister)] \in DOMAIN connections
       => ~ShardReadLocked(shardIndex(connID[Head(unregister)]))
    /\ unregisterConnection(Head(unregister))
    /\ unregister' = Tail(unregister)
    /\ unregRes' = [unregRes EXCEPT ![Head(unregister)] =
                        IF connID[Head(unregister)] \in DOMAIN connections
                        THEN "removed" ELSE "noop"]
    /\ order' = IF order = "mixed" THEN "mixed" ELSE "unregs"
    /\ UNCHANGED <<register, connID, Groups, transportClosed, readerPc, apiPc, clock,
                   groupOps, regRes, ctlVars, sendVars, liveVars, fanVars>>

\* -------------------------------------------------------------- readPump
\* ReadMessage fails (the peer went away or the transport was closed): the
\* deferred function sends the connection on hub.unregister and closes it.
ReadPumpExit(k) ==
    /\ ~panicked
    /\ readerPc[k].at = "read"
    /\ Len(unregister) < UnregisterCap
    /\ unregister' = Append(unregister, k)
    /\ transportClosed' = [transportClosed EXCEPT ![k] = TRUE]
    /\ readerPc' = [readerPc EXCEPT ![k] = [at |-> "done", g |-> ""]]
    /\ UNCHANGED <<hubVars, register, connID, Groups, sendClosed, apiPc, clock,
                   panicked, groupOps, histVars, ctlVars, sendVars, liveVars, fanVars>>

\* ------------------------------------------------ JoinGroup / LeaveGroup
\* first critical section (c.mu): c.Groups[groupName] = true
JoinLocal(k, g) == Groups' = [Groups EXCEPT ![k] = @ \cup {g}]
\* first critical section (c.mu): delete(c.Groups, groupName)
LeaveLocal(k, g) == Groups' = [Groups EXCEPT ![k] = @ \ {g}]
\* second critical section (c.Hub.mu): the group index gains the id
JoinIndex(k, g) == groupConnections' = GroupIndexAdd(groupConnections, g, connID[k])
\* second critical section (c.Hub.mu): the group index loses the id
LeaveIndex(k, g) == groupConnections' = GroupIndexRemove(groupConnections, g, connID[k])

\* readPump read a join_group / leave_group frame: handleJoinGroup,
\* handleLeaveGroup up to the end of the c.mu section
ReaderGroupLocal(k, op, g) ==
    /\ ~panicked
    /\ readerPc[k].at = "read"
    /\ ~transportClosed[k]
    /\ IF op = "join" THEN JoinLocal(k, g) ELSE LeaveLocal(k, g)
    /\ readerPc' = [readerPc EXCEPT ![k] = [at |-> op, g |-> g]]
    /\ groupOps < MaxGroupOps
    /\ groupOps' = groupOps + 1
    /\ UNCHANGED <<hubVars, chanVars, connID, transportClosed, sendClosed,
                   apiPc, clock, panicked, histVars, ctlVars, sendVars, liveVars, fanVars>>

\* A payload on a Send channel: the serialized Message. seq numbers the
\* messages handed to hub.broadcast (0 for a reply a handler builds itself).
Payload(type, seq, to, group, data) ==
    [type |-> type, seq |-> seq, from |-> "", to |-> to, group |-> group, data |-> data]

\* select { case c.Send <- data: default: }: the payload is appended when the
\* channel has room and dropped otherwise
OfferSend(q, data) == IF Len(q) < MessageBufferSize THEN Append(q, data) ELSE q

\* handleJoinGroup / handleLeaveGroup: the c.Hub.mu section, then the
\* group_joined / group_left reply offered to c.Send (a send on a closed
\* channel panics).
ReaderGroupIndex(k) ==
    /\ ~panicked
    /\ readerPc[k].at \in {"join", "leave"}
    /\ IF readerPc[k].at = "join" THEN JoinIndex(k, readerPc[k].g)
                                  ELSE LeaveIndex(k, readerPc[k].g)
    /\ readerPc' = [readerPc EXCEPT ![k] = [at |-> "read", g |-> ""]]
    /\ IF sendClosed[k]
       THEN panicked' = TRUE /\ UNCHANGED Send
       ELSE /\ Send' = [Send EXCEPT ![k] = OfferSend(@,
                   Payload(IF readerPc[k].at = "join" THEN "group_joined" ELSE "group_left",
                           0, "", "", readerPc[k].g))]
            /\ UNCHANGED panicked
    /\ UNCHANGED <<connections, connectionCount, shardConns, userConnections,
                   chanVars, connVars, apiPc, clock, groupOps, histVars,
                   ctlVars, writerPc, written, liveVars, fanVars>>

\* A caller of Connection.JoinGroup / LeaveGroup: the c.mu section. member
\* remembers whether c.Groups held the group when the call started.
ApiGroupLocal(k, op, g) ==
    /\ ~panicked
    /\ apiPc.at = "idle"
    /\ connID[k] # <<>>
    /\ IF op = "join" THEN JoinLocal(k, g) ELSE LeaveLocal(k, g)
    /\ apiPc' = [at |-> op, conn |-> k, g |-> g, member |-> g \in Groups[k]]
    /\ groupOps < MaxApiOps
    /\ groupOps' = groupOps + 1
    /\ UNCHANGED <<hubVars, chanVars, connID, transportClosed, sendClosed,
                   readerPc, clock, panicked, histVars, ctlVars, sendVars, liveVars, fanVars>>

\* Connection.JoinGroup / LeaveGroup: the c.Hub.mu section
ApiGroupIndex ==
    /\ ~panicked
    /\ apiPc.at \in {"join", "leave"}
    /\ IF apiPc.at = "join" THEN JoinIndex(apiPc.conn, apiPc.g)
                            ELSE LeaveIndex(apiPc.conn, apiPc.g)
    /\ apiPc' = NoOp
    /\ UNCHANGED <<connections, connectionCount, shardConns, userConnections,
                   chanVars, connVars, readerPc, clock, panicked, groupOps, histVars,
                   ctlVars, sendVars, liveVars, fanVars>>

\* ---------------------------------------------------------------- trySend
\* How a trySend(conn, data) that starts now goes on: the channel is closed
\* (the send panics), has room, or is full and the mode is DropOnFull, or is
\* full and the caller waits for room or for the SendTimeout timer.
TrySendOutcome(conn) ==
    IF sendClosed[conn] THEN "panic"
    ELSE IF Len(Send[conn]) < MessageBufferSize THEN "sent"
    ELSE IF config.DropOnFull THEN "dropped"
    ELSE "wait"

\* if h.config.CloseOnBackpressure { conn.Conn.Close() }
DropMayClose(conn) ==
    transportClosed' = [transportClosed EXCEPT ![conn] = @ \/ config.CloseOnBackpressure]

\* What trySend(conn, data) does to the connection when it ends with outcome:
\* case conn.Send <- data, or onDrop() and the optional conn.Conn.Close().
TrySendEffect(conn, data, outcome) ==
    /\ Send' = [Send EXCEPT ![conn] = IF outcome = "sent" THEN Append(@, data) ELSE @]
    /\ sent' = IF outcome = "sent" THEN sent \cup {<<data, conn>>} ELSE sent
    /\ dropped' = IF outcome = "dropped" THEN dropped \cup {<<data, conn>>} ELSE dropped
    /\ onDropCalls' = IF outcome = "dropped" THEN onDropCalls + 1 ELSE onDropCalls
    /\ IF outcome = "dropped" THEN DropMayClose(conn) ELSE UNCHANGED transportClosed
    /\ panicked' = (outcome = "panic")

\* ------------------------------------------------------ message producers
\* The addressing of a message, <<to, group>>: to a user, to a group, to all.
UserTargets == {u \in UserIDs : u # ""} \X {""}
GroupTargets == {""} \X GroupNames
Targets == UserTargets \cup GroupTargets \cup {<<"", "">>}

\* Handler.SendMessage / Handler.BroadcastMessage: h.hub.broadcast <- message
Publish(to, group) ==
    /\ ~panicked
    /\ published < MaxMessages
    /\ Len(broadcast) < MessageQueueSize
    /\ broadcast' = Append(broadcast, Payload("chat", published + 1, to, group, ""))
    /\ published' = published + 1
    /\ UNCHANGED <<hubVars, chanVars, connVars, readerPc, apiPc, clock, panicked, groupOps,
                   histVars, ctlVars, sendVars, liveVars, broadcastJobs, loopPc, workerPc,
                   sent, dropped, onDropCalls, lostJobs>>

\* ------------------------------------------------------ Hub.run: dispatch
\* range over the entry of key in a map[string]map[string]bool
IndexEntry(index, key) == IF key \in DOMAIN index THEN index[key] ELSE {}

\* case message := <-h.broadcast: the message is serialized and the switch
\* picks sendToUser, sendToGroup or enqueueBroadcastAll
RunBroadcast ==
    /\ ~panicked
    /\ loopPc.at = "select"
    /\ broadcast # <<>>
    /\ broadcast' = Tail(broadcast)
    /\ LET m == Head(broadcast) IN
         loopPc' = IF m.to # ""
                   THEN [at |-> "send", data |-> m, conn |-> 0, shard |-> 0,
                         todo |-> IndexEntry(userConnections, m.to)]
                   ELSE IF m.group # ""
                   THEN [at |-> "send", data |-> m, conn |-> 0, shard |-> 0,
                         todo |-> IndexEntry(groupConnections, m.group)]
                   ELSE [at |-> "fanout", data |-> m, conn |-> 0, shard |-> 0, todo |-> {}]
    /\ UNCHANGED <<hubVars, chanVars, connVars, readerPc, apiPc, clock, panicked, groupOps,
                   histVars, ctlVars, sendVars, liveVars, broadcastJobs, workerPc, published,
                   sent, dropped, onDropCalls, lostJobs>>

\* sendToUser / sendToGroup: one turn of the loop over the index entry, for
\* connection id: the lookup in h.connections, the IsAlive test, trySend
LoopSend(id) ==
    /\ ~panicked
    /\ loopPc.at = "send"
    /\ id \in loopPc.todo
    /\ IF id \in DOMAIN connections /\ IsAlive[connections[id]]
       THEN LET conn == connections[id]
                outcome == TrySendOutcome(conn)
            IN  /\ TrySendEffect(conn, loopPc.data, outcome)
                /\ loopPc' = [loopPc EXCEPT !.todo = @ \ {id},
                                            !.at = IF outcome = "wait" THEN "wait" ELSE "send",
                                            !.conn = IF outcome = "wait" THEN conn ELSE 0]
       ELSE /\ loopPc' = [loopPc EXCEPT !.todo = @ \ {id}]
            /\ UNCHANGED <<Send, sent, dropped, onDropCalls, transportClosed, panicked>>
    /\ UNCHANGED <<hubVars, chanVars, connID, Groups, sendClosed, readerPc, apiPc, clock,
                   groupOps, histVars, ctlVars, writerPc, written, liveVars, broadcast,
                   broadcastJobs, workerPc, published, lostJobs>>

\* sendToGroup: the range over h.groupConnections[group] does not produce an
\* entry that LeaveGroup deleted before the range reached it
LoopSkipDeleted(id) ==
    /\ ~panicked
    /\ loopPc.at = "send"
    /\ loopPc.data.to = ""
    /\ id \in loopPc.todo
    /\ id \notin IndexEntry(groupConnections, loopPc.data.group)
    /\ loopPc' = [loopPc EXCEPT !.todo = @ \ {id}]
    /\ UNCHANGED <<hubVars, chanVars, connVars, readerPc, apiPc, clock, panicked, groupOps,
                   histVars, ctlVars, sendVars, liveVars, broadcast, broadcastJobs, workerPc,
                   published, sent, dropped, onDropCalls, lostJobs>>

\* trySend without DropOnFull, called by the loop: case conn.Send <- data
LoopWaitSend ==
    /\ ~panicked
    /\ loopPc.at = "wait"
    /\ TrySendOutcome(loopPc.conn) \in {"sent", "panic"}
    /\ TrySendEffect(loopPc.conn, loopPc.data, TrySendOutcome(loopPc.conn))
    /\ loopPc' = [loopPc EXCEPT !.at = "send", !.conn = 0]
    /\ UNCHANGED <<hubVars, chanVars, connID, Groups, sendClosed, readerPc, apiPc, clock,
                   groupOps, histVars, ctlVars, writerPc, written, liveVars, broadcast,
                   broadcastJobs, workerPc, published, lostJobs>>

\* trySend without DropOnFull, called by the loop: case <-time.After(timeout)
LoopWaitTimeout ==
    /\ ~panicked
    /\ loopPc.at = "wait"
    /\ TrySendEffect(loopPc.conn, loopPc.data, "dropped")
    /\ loopPc' = [loopPc EXCEPT !.at = "send", !.conn = 0]
    /\ UNCHANGED <<hubVars, chanVars, connID, Groups, sendClosed, readerPc, apiPc, clock,
                   groupOps, histVars, ctlVars, writerPc, written, liveVars, broadcast,
                   broadcastJobs, workerPc, published, lostJobs>>

\* sendToUser / sendToGroup return: the loop is back at its select
LoopSendDone ==
    /\ ~panicked
    /\ loopPc.at = "send"
    /\ loopPc.todo = {}
    /\ loopPc' = AtSelect
    /\ UNCHANGED <<hubVars, chanVars, connVars, readerPc, apiPc, clock, panicked, groupOps,
                   histVars, ctlVars, sendVars, liveVars, broadcast, broadcastJobs, workerPc,
                   published, sent, dropped, onDropCalls, lostJobs>>

\* The last shard index.
LastShard == IF ShardCount <= 1 THEN 0 ELSE ShardCount - 1

\* (mutant) the job queue takes one job more than its capacity
JobQueueHasRoomOffByOne == Len(broadcastJobs) <= MessageQueueSize

\* case h.broadcastJobs <- job can proceed: the channel made with capacity
\* MessageQueueSize is not full
JobQueueHasRoom == Len(broadcastJobs) < MessageQueueSize

\* enqueueBroadcastAll: one turn of the loop over the shards: the job of shard
\* loopPc.shard is appended to hub.broadcastJobs, or dropped when that is full
LoopFanout ==
    /\ ~panicked
    /\ loopPc.at = "fanout"
    /\ IF JobQueueHasRoom
       THEN /\ broadcastJobs' = Append(broadcastJobs,
                                       [shard |-> loopPc.shard, data |-> loopPc.data])
            /\ UNCHANGED lostJobs
       ELSE /\ lostJobs' = lostJobs \cup {<<loopPc.data, loopPc.shard>>}
            /\ UNCHANGED broadcastJobs
    /\ loopPc' = IF loopPc.shard = LastShard THEN AtSelect
                 ELSE [loopPc EXCEPT !.shard = @ + 1]
    /\ UNCHANGED <<hubVars, chanVars, connVars, readerPc, apiPc, clock, panicked, groupOps,
                   histVars, ctlVars, sendVars, liveVars, broadcast, workerPc, published,
                   sent, dropped, onDropCalls>>

\* -------------------------------------------------------- broadcastWorker
\* for i := 0; i < config.BroadcastWorkerCount; i++ { go hub.broadcastWorker() }
Started(w) == w <= config.BroadcastWorkerCount

\* for job := range h.broadcastJobs: worker w takes the read lock of the
\* job's shard and starts ranging over the shard's connections
WorkerTake(w) ==
    /\ ~panicked
    /\ Started(w)
    /\ workerPc[w].at = "idle"
    /\ broadcastJobs # <<>>
    /\ broadcastJobs' = Tail(broadcastJobs)
    /\ LET job == Head(broadcastJobs) IN
         workerPc' = [workerPc EXCEPT ![w] =
                        [at |-> "job", shard |-> job.shard, data |-> job.data, conn |-> 0,
                         todo |-> {shardConns[job.shard][id] : id \in DOMAIN shardConns[job.shard]}]]
    /\ UNCHANGED <<hubVars, chanVars, connVars, readerPc, apiPc, clock, panicked, groupOps,
                   histVars, ctlVars, sendVars, liveVars, broadcast, loopPc, published,
                   sent, dropped, onDropCalls, lostJobs>>

\* one turn of worker w's loop over the shard: the IsAlive test, trySend
WorkerSend(w, conn) ==
    /\ ~panicked
    /\ workerPc[w].at = "job"
    /\ conn \in workerPc[w].todo
    /\ IF IsAlive[conn]
       THEN LET outcome == TrySendOutcome(conn)
            IN  /\ TrySendEffect(conn, workerPc[w].data, outcome)
                /\ workerPc' = [workerPc EXCEPT ![w].todo = @ \ {conn},
                                                ![w].at = IF outcome = "wait" THEN "wait" ELSE "job",
                                                ![w].conn = IF outcome = "wait" THEN conn ELSE 0]
       ELSE /\ workerPc' = [workerPc EXCEPT ![w].todo = @ \ {conn}]
            /\ UNCHANGED <<Send, sent, dropped, onDropCalls, transportClosed, panicked>>
    /\ UNCHANGED <<hubVars, chanVars, connID, Groups, sendClosed, readerPc, apiPc, clock,
                   groupOps, histVars, ctlVars, writerPc, written, liveVars, broadcast,
                   broadcastJobs, loopPc, published, lostJobs>>

\* trySend without DropOnFull, called by worker w: case conn.Send <- data
WorkerWaitSend(w) ==
    /\ ~panicked
    /\ workerPc[w].at = "wait"
    /\ TrySendOutcome(workerPc[w].conn) \in {"sent", "panic"}
    /\ TrySendEffect(workerPc[w].conn, workerPc[w].data, TrySendOutcome(workerPc[w].conn))
    /\ workerPc' = [workerPc EXCEPT ![w].at = "job", ![w].conn = 0]
    /\ UNCHANGED <<hubVars, chanVars, connID, Groups, sendClosed, readerPc, apiPc, clock,
                   groupOps, histVars, ctlVars, writerPc, written, liveVars, broadcast,
                   broadcastJobs, loopPc, published, lostJobs>>

\* trySend without DropOnFull, called by worker w: case <-time.After(timeout)
WorkerWaitTimeout(w) ==
    /\ ~panicked
    /\ workerPc[w].at = "wait"
    /\ TrySendEffect(workerPc[w].conn, workerPc[w].data, "dropped")
    /\ workerPc' = [workerPc EXCEPT ![w].at = "job", ![w].conn = 0]
    /\ UNCHANGED <<hubVars, chanVars, connID, Groups, sendClosed, readerPc, apiPc, clock,
                   groupOps, histVars, ctlVars, writerPc, written, liveVars, broadcast,
                   broadcastJobs, loopPc, published, lostJobs>>

\* the range is over: RUnlock, worker w is back to waiting for a job
WorkerDone(w) ==
    /\ ~panicked
    /\ workerPc[w].at = "job"
    /\ workerPc[w].todo = {}
    /\ workerPc' = [workerPc EXCEPT ![w] = WorkerIdle]
    /\ UNCHANGED <<hubVars, chanVars, connVars, readerPc, apiPc, clock, panicked, groupOps,
                   histVars, ctlVars, sendVars, liveVars, broadcast, broadcastJobs, loopPc,
                   published, sent, dropped, onDropCalls, lostJobs>>

\* -------------------------------------------------------------- writePump
\* (mutant) the frame is put in front of what was written before
WritePumpNewestFirst(k) ==
    /\ ~panicked
    /\ writerPc[k] = "run"
    /\ ~transportClosed[k]
    /\ Send[k] # <<>>
    /\ written' = [written EXCEPT ![k] = Send[k] \o @]
    /\ Send' = [Send EXCEPT ![k] = <<>>]
    /\ UNCHANGED <<hubVars, chanVars, connVars, readerPc, apiPc, clock, panicked, groupOps,
                   histVars, ctlVars, writerPc, liveVars, fanVars>>

\* case message, ok := <-c.Send with ok: the message and everything queued
\* behind it are written to the transport in one frame
WritePump(k) ==
    /\ ~panicked
    /\ writerPc[k] = "run"
    /\ ~transportClosed[k]
    /\ Send[k] # <<>>
    /\ written' = [written EXCEPT ![k] = @ \o Send[k]]
    /\ Send' = [Send EXCEPT ![k] = <<>>]
    /\ UNCHANGED <<hubVars, chanVars, connVars, readerPc, apiPc, clock, panicked, groupOps,
                   histVars, ctlVars, writerPc, liveVars, fanVars>>

\* The transport is closed: NextWriter fails after a message was received
\* from c.Send, or the ping of the writer's ticker fails (the writer has a
\* ticker unless EnableGlobalPing is set); writePump returns.
WritePumpFails(k) ==
    /\ ~panicked
    /\ writerPc[k] = "run"
    /\ transportClosed[k]
    /\ \E q \in (IF config.EnableGlobalPing THEN {} ELSE {Send[k]})
                 \cup (IF Send[k] # <<>> THEN {Tail(Send[k])} ELSE {}) :
          Send' = [Send EXCEPT ![k] = q]
    /\ writerPc' = [writerPc EXCEPT ![k] = "done"]
    /\ UNCHANGED <<hubVars, chanVars, connVars, readerPc, apiPc, clock, panicked, groupOps,
                   histVars, ctlVars, written, liveVars, fanVars>>

\* case message, ok := <-c.Send with !ok (closed and drained): the close
\* frame is written, writePump returns and its deferred c.Conn.Close() runs
WritePumpClosed(k) ==
    /\ ~panicked
    /\ writerPc[k] = "run"
    /\ sendClosed[k]
    /\ Send[k] = <<>>
    /\ writerPc' = [writerPc EXCEPT ![k] = "done"]
    /\ transportClosed' = [transportClosed EXCEPT ![k] = TRUE]
    /\ UNCHANGED <<hubVars, chanVars, connID, Groups, sendClosed, readerPc, apiPc, clock,
                   panicked, groupOps, histVars, ctlVars, Send, written, liveVars, fanVars>>

\* -------------------------------------------------------------- heartbeat
\* The wall clock advances by one unit.
Elapse ==
    /\ ~panicked
    /\ now < MaxTime
    /\ now' = now + 1
    /\ UNCHANGED <<hubVars, chanVars, connVars, readerPc, apiPc, clock, panicked, groupOps,
                   histVars, ctlVars, sendVars, IsAlive, LastPing, fanVars>>

\* The pong handler readPump installs: c.LastPing = time.Now()
PongHandler(k) ==
    /\ ~panicked
    /\ readerPc[k].at = "read"
    /\ ~transportClosed[k]
    /\ LastPing[k] # now
    /\ LastPing' = [LastPing EXCEPT ![k] = now]
    /\ UNCHANGED <<hubVars, chanVars, connVars, readerPc, apiPc, clock, panicked, groupOps,
                   histVars, ctlVars, sendVars, IsAlive, now, fanVars>>

\* (mutant) the scan compares with >= instead of >
HeartbeatExpiredAtTimeout(conn) == now - LastPing[conn] >= ConnectionTimeout

\* now.Sub(conn.LastPing) > h.config.ConnectionTimeout
HeartbeatExpired(conn) == now - LastPing[conn] > ConnectionTimeout

\* The connections checkHeartbeats ranges over: the values of h.connections.
Registered == {connections[id] : id \in DOMAIN connections}

\* checkHeartbeats
checkHeartbeats ==
    /\ IsAlive' = [k \in Conns |->
                      IF k \in Registered /\ HeartbeatExpired(k) THEN FALSE ELSE IsAlive[k]]
    /\ transportClosed' = [k \in Conns |->
                      IF k \in Registered /\ HeartbeatExpired(k) THEN TRUE
                      ELSE transportClosed[k]]

\* case <-ticker.C: checkHeartbeats. (With EnableGlobalPing the case first
\* offers one ping job per shard to the ping workers, which write ping frames
\* to the transports and change nothing else.)
RunTicker ==
    /\ ~panicked
    /\ loopPc.at = "select"
    /\ checkHeartbeats
    /\ UNCHANGED <<hubVars, chanVars, connID, Groups, sendClosed, readerPc, apiPc, clock,
                   panicked, groupOps, histVars, ctlVars, sendVars, LastPing, now, fanVars>>

\* ----------------------------------------------------------- handleMessage
\* Inbound frames: a ping, a ping whose timestamp is a string, a status
\* update, a message of no known type, and text cut off in the middle.
\* (join_group and leave_group frames are the actions ReaderGroupLocal and
\* ReaderGroupIndex.)
Frames ==
    {"{\"type\":\"ping\"}",
     "{\"type\":\"ping\",\"timestamp\":\"x\"}",
     "{\"type\":\"status\",\"data\":{\"away\":true}}",
     "{\"type\":\"nope\"}",
     "{\"type\":\"pi"}

\* Inbound chat and notification frames: with and without a target, with a
\* from of the client's choosing, with data that is not an object.
ClientFrames ==
    {"{\"type\":\"chat\",\"to\":\"u2\",\"data\":{}}",
     "{\"type\":\"chat\",\"from\":\"u2\",\"to\":\"u2\",\"data\":{}}",
     "{\"type\":\"chat\",\"data\":{}}",
     "{\"type\":\"chat\",\"to\":\"u2\",\"data\":\"hi\"}",
     "{\"type\":\"notification\",\"data\":{}}",
     "{\"type\":\"notification\",\"from\":\"u2\",\"group\":\"g1\",\"data\":{}}"}

\* A decoded Message: the fields handleMessage and its handlers read. Data is
\* the set of keys of a data object; Object tells whether data was one.
Decoded(err, type, from, to, group, object, data) ==
    [err |-> err, Type |-> type, From |-> from, To |-> to, Group |-> group,
     Object |-> object, Data |-> data]

\* json.Unmarshal(message, &msg) on those frames: whether it returns an
\* error, and the fields of msg it has set by then.  Text that is not JSON
\* is refused before anything is decoded; a value of the wrong type is
\* reported after the other fields have been decoded.
Unmarshal(frame) ==
    CASE frame = "{\"type\":\"ping\"}"
           -> Decoded(FALSE, "ping", "", "", "", FALSE, {})
      [] frame = "{\"type\":\"ping\",\"timestamp\":\"x\"}"
           -> Decoded(TRUE, "ping", "", "", "", FALSE, {})
      [] frame = "{\"type\":\"status\",\"data\":{\"away\":true}}"
           -> Decoded(FALSE, "status", "", "", "", TRUE, {"away"})
      [] frame = "{\"type\":\"nope\"}"
           -> Decoded(FALSE, "nope", "", "", "", FALSE, {})
      [] frame = "{\"type\":\"chat\",\"to\":\"u2\",\"data\":{}}"
           -> Decoded(FALSE, "chat", "", "u2", "", TRUE, {})
      [] frame = "{\"type\":\"chat\",\"from\":\"u2\",\"to\":\"u2\",\"data\":{}}"
           -> Decoded(FALSE, "chat", "u2", "u2", "", TRUE, {})
      [] frame = "{\"type\":\"chat\",\"data\":{}}"
           -> Decoded(FALSE, "chat", "", "", "", TRUE, {})
      [] frame = "{\"type\":\"chat\",\"to\":\"u2\",\"data\":\"hi\"}"
           -> Decoded(FALSE, "chat", "", "u2", "", FALSE, {})
      [] frame = "{\"type\":\"notification\",\"data\":{}}"
           -> Decoded(FALSE, "notification", "", "", "", TRUE, {})
      [] frame = "{\"type\":\"notification\",\"from\":\"u2\",\"group\":\"g1\",\"data\":{}}"
           -> Decoded(FALSE, "notification", "u2", "", "g1", TRUE, {})
      [] OTHER
           -> Decoded(TRUE, "", "", "", "", FALSE, {})

\* (mutant) the error of json.Unmarshal is ignored
ParseFailsNever(frame) == FALSE

\* if err := json.Unmarshal(message, &msg); err != nil
ParseFails(frame) == Unmarshal(frame).err

\* (mutant) the from of the frame is kept
SenderOfFrame(k, msg) == msg.From

\* msg.From = c.UserID
Sender(k, msg) == UserID(k)

\* handleChat / handleNotification hand the message to the hub: data is an
\* object and, for a chat message, to or group is set.
Forwards(msg) ==
    /\ msg.Type \in {"chat", "notification"}
    /\ msg.Object
    /\ msg.Type = "chat" => (msg.To # "" \/ msg.Group # "")

\* readPump: ReadMessage returns a frame and handleMessage(frame) runs:
\* return on a parse error, else handlePing, handleChat, handleNotification,
\* handleStatus or the default case of the switch; then the reader reads on.
\* c.Hub.broadcast <- &msg waits for room in the channel.
HandleMessage(k, frame) ==
    /\ ~panicked
    /\ readerPc[k].at = "read"
    /\ ~transportClosed[k]
    /\ LET msg == Unmarshal(frame)
           kind == IF ParseFails(frame) THEN "error" ELSE msg.Type
           answers == kind \in {"ping", "status"}
           forwards == kind # "error" /\ Forwards(msg)
           reply == Payload(IF kind = "ping" THEN "pong" ELSE "status_updated", 0, "", "", "")
       IN  /\ call' = [fn |-> "handleMessage", conn |-> k, arg |-> frame]
           /\ LastPing' = IF kind = "ping" THEN [LastPing EXCEPT ![k] = now] ELSE LastPing
           /\ Metadata' = IF kind = "status"
                          THEN [Metadata EXCEPT ![k] = @ \cup msg.Data] ELSE Metadata
           /\ Send' = IF answers /\ ~sendClosed[k]
                      THEN [Send EXCEPT ![k] = OfferSend(@, reply)] ELSE Send
           /\ panicked' = (answers /\ sendClosed[k])
           /\ forwards => Len(broadcast) < MessageQueueSize
           /\ broadcast' = IF forwards
                           THEN Append(broadcast,
                                       [Payload(msg.Type, 0, msg.To, msg.Group, "")
                                          EXCEPT !.from = Sender(k, msg)])
                           ELSE broadcast
    /\ UNCHANGED <<hubVars, chanVars, connVars, readerPc, apiPc, clock, groupOps, histVars,
                   config, closePc, writerPc, written, IsAlive, now, broadcastJobs, loopPc,
                   workerPc, published, sent, dropped, onDropCalls, lostJobs>>

\* A caller that holds the connection runs Connection.SendMessage: the
\* marshalled message is offered to c.Send (select with default); a send on a
\* closed channel panics.
SendMessage(k) ==
    /\ ~panicked
    /\ connID[k] # <<>>
    /\ Send' = IF sendClosed[k] THEN Send
               ELSE [Send EXCEPT ![k] = OfferSend(@, Payload("message", 0, "", "", ""))]
    /\ panicked' = sendClosed[k]
    /\ UNCHANGED <<hubVars, chanVars, connVars, readerPc, apiPc, clock, groupOps, histVars,
                   ctlVars, writerPc, written, liveVars, fanVars>>

\* --------------------------------------------------------------- Hub.Close
\* Close: h.cancel()
CloseCancel ==
    /\ ~panicked
    /\ closePc = "none"
    /\ closePc' = "cancelled"
    /\ UNCHANGED <<hubVars, chanVars, connVars, readerPc, apiPc, clock, panicked, groupOps,
                   histVars, config, call, Metadata, sendVars, liveVars, fanVars>>

\* Close: under h.mu, conn.Conn.Close() for every value of h.connections;
\* then Close returns
CloseSweep ==
    /\ ~panicked
    /\ closePc = "cancelled"
    /\ closePc' = "returned"
    /\ transportClosed' = [k \in Conns |-> transportClosed[k] \/ k \in Registered]
    /\ UNCHANGED <<hubVars, chanVars, connID, Groups, sendClosed, readerPc, apiPc, clock,
                   panicked, groupOps, histVars, config, call, Metadata, sendVars, liveVars, fanVars>>

\* Hub.run: case <-h.ctx.Done(): return.  The select takes this case or any
\* other case that is ready.
RunDone ==
    /\ ~panicked
    /\ loopPc.at = "select"
    /\ closePc # "none"
    /\ loopPc' = [at |-> "returned"]
    /\ UNCHANGED <<hubVars, chanVars, connVars, readerPc, apiPc, clock, panicked, groupOps,
                   histVars, ctlVars, sendVars, liveVars, broadcast, broadcastJobs, workerPc,
                   published, sent, dropped, onDropCalls, lostJobs>>

\* ----------------------------------------------------------- ValidateConfig
\* ValidateConfig(config): the first check that fails names the error, in the
\* order of the code; "nil" when none fails.
ValidateConfig(cfg) ==
    IF cfg.MaxConnections <= 0 THEN "MaxConnections"
    ELSE IF cfg.HeartbeatInterval <= 0 THEN "HeartbeatInterval"
    ELSE IF cfg.ConnectionTimeout <= 0 THEN "ConnectionTimeout"
    ELSE IF cfg.MessageBufferSize <= 0 THEN "MessageBufferSize"
    ELSE IF cfg.MessageQueueSize <= 0 THEN "MessageQueueSize"
    ELSE IF cfg.ShardCount <= 0 THEN "ShardCount"
    ELSE IF cfg.BroadcastWorkerCount <= 0 THEN "BroadcastWorkerCount"
    ELSE IF cfg.CompressionLevel < MinCompressionLevel
            \/ cfg.CompressionLevel > MaxCompressionLevel THEN "CompressionLevel"
    ELSE IF cfg.ReadBufferSize <= 0 \/ cfg.WriteBufferSize <= 0 THEN "BufferSize"
    ELSE IF cfg.MaxMessageSize <= 0 THEN "MaxMessageSize"
    ELSE IF cfg.HeartbeatInterval >= cfg.ConnectionTimeout THEN "HeartbeatNotBelowTimeout"
    ELSE IF cfg.CloseOnBackpressure /\ cfg.SendTimeout <= 0 THEN "SendTimeout"
    ELSE IF cfg.EnableGlobalPing /\ cfg.PingWorkerCount <= 0 THEN "PingWorkerCount"
    ELSE "nil"

\* The Config values ValidateConfig is called with: every field it reads,
\* from zero (a field left unset) upwards.
ConfigInputs ==
    [MaxConnections : 0 .. MaxSize,
     HeartbeatInterval : 0 .. MaxDuration,
     ConnectionTimeout : 0 .. MaxDuration,
     MessageBufferSize : 0 .. MaxSize,
     MessageQueueSize : 0 .. MaxSize,
     ShardCount : 0 .. MaxSize,
     BroadcastWorkerCount : 0 .. MaxSize,
     CompressionLevel : {MinCompressionLevel - 1, 0, MaxCompressionLevel + 1},
     ReadBufferSize : 0 .. MaxSize,
     WriteBufferSize : 0 .. MaxSize,
     MaxMessageSize : 0 .. MaxSize,
     CloseOnBackpressure : BOOLEAN,
     SendTimeout : 0 .. MaxSize,
     EnableGlobalPing : BOOLEAN,
     PingWorkerCount : 0 .. MaxSize]

\* The Config values NewHub is called with.  NewHub checks nothing and uses
\* what it is given; the sizes are those the channels and shards of this hub
\* are built with, the intervals are positive (time.NewTicker needs that),
\* and the heartbeat settings and the backpressure settings take every value.
HubConfigInputs ==
    [MaxConnections : {MaxConnections},
     HeartbeatInterval : 1 .. MaxDuration,
     ConnectionTimeout : 0 .. MaxDuration,
     MessageBufferSize : {MessageBufferSize},
     MessageQueueSize : {MessageQueueSize},
     ShardCount : {ShardCount},
     BroadcastWorkerCount : {1},
     CompressionLevel : {MinCompressionLevel},
     ReadBufferSize : {1},
     WriteBufferSize : {1},
     MaxMessageSize : {1},
     DropOnFull : BOOLEAN,
     CloseOnBackpressure : BOOLEAN,
     SendTimeout : 0 .. MaxSize,
     EnableGlobalPing : {FALSE},
     PingWorkerCount : {0}]

\* The arguments to try: those of S for the first call, none after it.
FirstCall(S) == IF call = NoCall THEN S ELSE {}

\* A caller runs ValidateConfig(cfg).
ValidateConfigCall(cfg) ==
    /\ call = NoCall
    /\ call' = [fn |-> "ValidateConfig", arg |-> cfg, ret |-> ValidateConfig(cfg)]
    /\ UNCHANGED <<hubVars, chanVars, connVars, readerPc, apiPc, clock, panicked, groupOps,
                   histVars, config, closePc, Metadata, sendVars, liveVars, fanVars>>

\* ------------------------------------------------------------ MergeConfig
\* A nil *Config.
NilConfig == [nil |-> TRUE]

\* The outcome of a call that panics.
Panics == [panic |-> TRUE]

\* A Config literal that sets no field: every field at its zero value.
ZeroConfig ==
    [MaxConnections |-> 0, HeartbeatInterval |-> 0, ConnectionTimeout |-> 0,
     MessageBufferSize |-> 0, ReadBufferSize |-> 0, WriteBufferSize |-> 0,
     MaxMessageSize |-> 0, EnableCompression |-> FALSE, EnableMessageQueue |-> FALSE,
     MessageQueueSize |-> 0, EnableCluster |-> FALSE, ClusterNodeID |-> "",
     ShardCount |-> 0, BroadcastWorkerCount |-> 0, DropOnFull |-> FALSE,
     CompressionLevel |-> 0, CloseOnBackpressure |-> FALSE, SendTimeout |-> 0,
     EnableGlobalPing |-> FALSE, PingWorkerCount |-> 0]

\* What DefaultConfig() returns, every field (durations in milliseconds).
DefaultConfigValue ==
    [MaxConnections |-> 100000, HeartbeatInterval |-> 30000, ConnectionTimeout |-> 60000,
     MessageBufferSize |-> 256, ReadBufferSize |-> 1024, WriteBufferSize |-> 1024,
     MaxMessageSize |-> 512, EnableCompression |-> TRUE, EnableMessageQueue |-> TRUE,
     MessageQueueSize |-> 1000, EnableCluster |-> FALSE, ClusterNodeID |-> "",
     ShardCount |-> 16, BroadcastWorkerCount |-> 32, DropOnFull |-> TRUE,
     CompressionLevel |-> MinCompressionLevel, CloseOnBackpressure |-> FALSE,
     SendTimeout |-> 50, EnableGlobalPing |-> FALSE, PingWorkerCount |-> 8]

\* CloneConfig copies every field; of nil it returns nil.
CloneConfig(cfg) ==
    IF cfg = NilConfig THEN NilConfig
    ELSE [MaxConnections |-> cfg.MaxConnections,
          HeartbeatInterval |-> cfg.HeartbeatInterval,
          ConnectionTimeout |-> cfg.ConnectionTimeout,
          MessageBufferSize |-> cfg.MessageBufferSize,
          ReadBufferSize |-> cfg.ReadBufferSize,
          WriteBufferSize |-> cfg.WriteBufferSize,
          MaxMessageSize |-> cfg.MaxMessageSize,
          EnableCompression |-> cfg.EnableCompression,
          EnableMessageQueue |-> cfg.EnableMessageQueue,
          MessageQueueSize |-> cfg.MessageQueueSize,
          EnableCluster |-> cfg.EnableCluster,
          ClusterNodeID |-> cfg.ClusterNodeID,
          ShardCount |-> cfg.ShardCount,
          BroadcastWorkerCount |-> cfg.BroadcastWorkerCount,
          DropOnFull |-> cfg.DropOnFull,
          CompressionLevel |-> cfg.CompressionLevel,
          CloseOnBackpressure |-> cfg.CloseOnBackpressure,
          SendTimeout |-> cfg.SendTimeout,
          EnableGlobalPing |-> cfg.EnableGlobalPing,
          PingWorkerCount |-> cfg.PingWorkerCount]

\* if config.F > 0 { result.F = config.F }
IfPositive(new, old) == IF new > 0 THEN new ELSE old

\* One round of MergeConfig's loop: result after configs[i] = cfg. A nil
\* cfg is skipped; assigning through a nil result panics.
MergeOne(result, cfg) ==
    IF cfg = NilConfig \/ result = Panics THEN result
    ELSE IF result = NilConfig THEN Panics
    ELSE [MaxConnections |-> IfPositive(cfg.MaxConnections, result.MaxConnections),
          HeartbeatInterval |-> IfPositive(cfg.HeartbeatInterval, result.HeartbeatInterval),
          ConnectionTimeout |-> IfPositive(cfg.ConnectionTimeout, result.ConnectionTimeout),
          MessageBufferSize |-> IfPositive(cfg.MessageBufferSize, result.MessageBufferSize),
          MessageQueueSize |-> IfPositive(cfg.MessageQueueSize, result.MessageQueueSize),
          ReadBufferSize |-> IfPositive(cfg.ReadBufferSize, result.ReadBufferSize),
          WriteBufferSize |-> IfPositive(cfg.WriteBufferSize, result.WriteBufferSize),
          MaxMessageSize |-> IfPositive(cfg.MaxMessageSize, result.MaxMessageSize),
          ClusterNodeID |-> IF cfg.ClusterNodeID # "" THEN cfg.ClusterNodeID
                            ELSE result.ClusterNodeID,
          EnableCompression |-> cfg.EnableCompression,
          EnableMessageQueue |-> cfg.EnableMessageQueue,
          EnableCluster |-> cfg.EnableCluster,
          DropOnFull |-> cfg.DropOnFull,
          CloseOnBackpressure |-> cfg.CloseOnBackpressure,
          EnableGlobalPing |-> cfg.EnableGlobalPing,
          ShardCount |-> IfPositive(cfg.ShardCount, result.ShardCount),
          BroadcastWorkerCount |-> IfPositive(cfg.BroadcastWorkerCount,
                                              result.BroadcastWorkerCount),
          CompressionLevel |-> IF cfg.CompressionLevel # 0 THEN cfg.CompressionLevel
                               ELSE result.CompressionLevel,
          SendTimeout |-> IfPositive(cfg.SendTimeout, result.SendTimeout),
          PingWorkerCount |-> IfPositive(cfg.PingWorkerCount, result.PingWorkerCount)]

\* The loop for i := 1; i < len(configs); i++ over the rest of the arguments.
RECURSIVE MergeLoop(_, _)
MergeLoop(result, rest) ==
    IF rest = <<>> THEN result ELSE MergeLoop(MergeOne(result, Head(rest)), Tail(rest))

\* MergeConfig(configs...): the defaults for no argument, the argument itself
\* for one, otherwise a clone of the first with the others merged in order.
MergeConfig(configs) ==
    IF Len(configs) = 0 THEN DefaultConfigValue
    ELSE IF Len(configs) = 1 THEN configs[1]
    ELSE MergeLoop(CloneConfig(configs[1]), Tail(configs))

\* The values a Config literal gives a field it sets.
FieldValues(f) ==
    IF f \in {"EnableCompression", "EnableMessageQueue", "EnableCluster", "DropOnFull",
              "CloseOnBackpressure", "EnableGlobalPing"} THEN {TRUE}
    ELSE IF f = "ClusterNodeID" THEN {"n1"}
    ELSE IF f = "CompressionLevel" THEN {MinCompressionLevel, MaxCompressionLevel}
    ELSE {MaxSize}

\* Config literals that set at most one field.
SparseConfigs ==
    {ZeroConfig} \cup
    {[ZeroConfig EXCEPT ![f] = v] : <<f, v>> \in
        UNION {{<<g, w>> : w \in FieldValues(g)} : g \in DOMAIN ZeroConfig}}

\* The arguments MergeConfig is called with: up to MaxConfigs of the
\* defaults, nil and the sparse literals.
MergeInputs ==
    UNION {[1 .. n -> SparseConfigs \cup {DefaultConfigValue, NilConfig}] : n \in 0 .. MaxConfigs}

\* A caller runs MergeConfig(configs...).
MergeConfigCall(configs) ==
    /\ call = NoCall
    /\ call' = [fn |-> "MergeConfig", arg |-> configs, ret |-> MergeConfig(configs)]
    /\ UNCHANGED <<hubVars, chanVars, connVars, readerPc, apiPc, clock, panicked, groupOps,
                   histVars, config, closePc, Metadata, sendVars, liveVars, fanVars>>

\* Handler.HealthCheck: the status it reports when h.hub.ctx.Err() is or is
\* not nil (cancelled), GetConnectionCount() returns totalConnections and
\* config.MaxConnections is maxConnections. The threshold is computed in
\* int64: maxConnections*9/10 truncates.
HealthCheck(cancelled, totalConnections, maxConnections) ==
    IF cancelled THEN "unhealthy"
    ELSE IF totalConnections >= (maxConnections * 9) \div 10 THEN "warning"
    ELSE "healthy"

\* What HealthCheck may read: a hub that was shut down or not, a
\* MaxConnections from 1 up and a connection count up to it.
HealthInputs ==
    {in \in [cancelled : BOOLEAN, totalConnections : 0..MaxLimit, maxConnections : 1..MaxLimit] :
        in.totalConnections <= in.maxConnections}

\* A request reaches Handler.HealthCheck.
HealthCheckCall(in) ==
    /\ call = NoCall
    /\ call' = [fn |-> "HealthCheck", arg |-> in,
                ret |-> HealthCheck(in.cancelled, in.totalConnections, in.maxConnections)]
    /\ UNCHANGED <<hubVars, chanVars, connVars, readerPc, apiPc, clock, panicked, groupOps,
                   histVars, config, closePc, Metadata, sendVars, liveVars, fanVars>>

\* --------------------------------------------------------- introspection
GetConnectionCount == connectionCount

GetUserConnections(u) ==
    IF u \in DOMAIN userConnections THEN Cardinality(userConnections[u]) ELSE 0

\* ------------------------------------------------------------------ Spec
Next ==
    \/ \E k \in Conns : HandleWebSocket(k)
    \/ RunRegister
    \/ RunUnregister
    \/ \E k \in Conns : ReadPumpExit(k)
    \/ \E k \in Conns, op \in {"join", "leave"}, g \in GroupNames : ReaderGroupLocal(k, op, g)
    \/ \E k \in Conns : ReaderGroupIndex(k)
    \/ \E k \in Conns, op \in {"join", "leave"}, g \in GroupNames : ApiGroupLocal(k, op, g)
    \/ ApiGroupIndex

Spec == Init /\ [][Next]_vars

\* A hub built with any of the backpressure configurations.
HubInit == \E cfg \in Configs : NewHub(cfg)

\* Connections come and go, as far as the control loop and the reader's exit
\* are concerned.
Lifecycle ==
    \/ \E k \in Conns : HandleWebSocket(k)
    \/ RunRegister
    \/ RunUnregister
    \/ \E k \in Conns : ReadPumpExit(k)

\* Delivery by user: messages addressed to a user, dispatched by the control
\* loop itself; the writers that drain the queues; the heartbeat scan.
SendNext ==
    \/ Lifecycle
    \/ \E t \in UserTargets : Publish(t[1], t[2])
    \/ RunBroadcast
    \/ \E id \in IDs : LoopSend(id)
    \/ LoopWaitSend
    \/ LoopWaitTimeout
    \/ LoopSendDone
    \/ \E k \in Conns : WritePump(k)
    \/ Elapse
    \/ RunTicker

SendSpec == HubInit /\ [][SendNext]_vars

\* Delivery by group, next to delivery to one user: the readers of
\* connections that stay connected join and leave groups while the control
\* loop dispatches.
GroupNext ==
    \/ \E k \in Conns : HandleWebSocket(k)
    \/ RunRegister
    \/ \E k \in Conns, op \in {"join", "leave"}, g \in GroupNames : ReaderGroupLocal(k, op, g)
    \/ \E k \in Conns : ReaderGroupIndex(k)
    \/ \E t \in GroupTargets \cup {<<UserID(1), "">>} : Publish(t[1], t[2])
    \/ RunBroadcast
    \/ \E id \in IDs : LoopSkipDeleted(id)
    \/ \E id \in IDs : LoopSend(id)
    \/ LoopWaitSend
    \/ LoopWaitTimeout
    \/ LoopSendDone
    \/ \E k \in Conns : WritePump(k)

GroupSpec == HubInit /\ [][GroupNext]_vars

\* Broadcast delivery: messages with neither to nor group, fanned out per
\* shard through the job queue to the broadcastWorker.
FanoutNext ==
    \/ Lifecycle
    \/ Publish("", "")
    \/ RunBroadcast
    \/ LoopFanout
    \/ \E w \in Workers : WorkerTake(w)
    \/ \E w \in Workers, k \in Conns : WorkerSend(w, k)
    \/ \E w \in Workers : WorkerWaitSend(w)
    \/ \E w \in Workers : WorkerWaitTimeout(w)
    \/ \E w \in Workers : WorkerDone(w)
    \/ \E k \in Conns : WritePump(k)

FanoutSpec == HubInit /\ [][FanoutNext]_vars

\* A hub whose configuration starts more than one broadcast worker.
WorkersInit == NewHub([DefaultConfig EXCEPT !.BroadcastWorkerCount = NumWorkers])

\* Broadcast delivery with several workers taking jobs from the one job
\* queue, each under the read lock of its job's shard.
WorkersNext ==
    \/ \E k \in Conns : HandleWebSocket(k)
    \/ RunRegister
    \/ Publish("", "")
    \/ RunBroadcast
    \/ LoopFanout
    \/ \E w \in Workers : WorkerTake(w)
    \/ \E w \in Workers, k \in Conns : WorkerSend(w, k)
    \/ \E w \in Workers : WorkerDone(w)
    \/ \E k \in Conns : WritePump(k)

WorkersSpec == WorkersInit /\ [][WorkersNext]_vars

\* A hub in drop-on-full mode with room for every connection.
RoutingInit == NewHub([DefaultConfig EXCEPT !.MaxConnections = NumConns])

\* Messages that name both a user and a group.
BothTargets == {u \in UserIDs : u # ""} \X GroupNames

\* Delivery of messages with both to and group set, while the readers join
\* and leave groups.
RoutingNext ==
    \/ \E k \in Conns : HandleWebSocket(k)
    \/ RunRegister
    \/ \E k \in Conns, op \in {"join", "leave"}, g \in GroupNames : ReaderGroupLocal(k, op, g)
    \/ \E k \in Conns : ReaderGroupIndex(k)
    \/ \E t \in BothTargets : Publish(t[1], t[2])
    \/ RunBroadcast
    \/ \E id \in IDs : LoopSend(id)
    \/ LoopSendDone
    \/ \E k \in Conns : WritePump(k)

RoutingSpec == RoutingInit /\ [][RoutingNext]_vars

\* The heartbeat scan of the control loop against the pong handlers, and the
\* teardown of a connection by its reader, the loop and its writer.
HeartbeatNext ==
    \/ Lifecycle
    \/ Elapse
    \/ \E k \in Conns : PongHandler(k)
    \/ RunTicker
    \/ \E k \in Conns : WritePumpFails(k)
    \/ \E k \in Conns : WritePumpClosed(k)

HeartbeatSpec == HubInit /\ [][HeartbeatNext]_vars

\* Shutdown: connections come and go and messages to all are fanned out
\* while Close is called and the loop returns.
CloseNext ==
    \/ Lifecycle
    \/ Publish("", "")
    \/ RunBroadcast
    \/ LoopFanout
    \/ \E w \in Workers : WorkerTake(w)
    \/ \E w \in Workers, k \in Conns : WorkerSend(w, k)
    \/ \E w \in Workers : WorkerDone(w)
    \/ CloseCancel
    \/ CloseSweep
    \/ RunDone

CloseSpec == Init /\ [][CloseNext]_vars

\* Membership through the API: connections are created and registered while
\* a caller runs Connection.JoinGroup and Connection.LeaveGroup on them.
MembershipNext ==
    \/ \E k \in Conns : HandleWebSocket(k)
    \/ RunRegister
    \/ \E k \in Conns, op \in {"join", "leave"}, g \in ApiGroupNames : ApiGroupLocal(k, op, g)
    \/ ApiGroupIndex

MembershipSpec == HubInit /\ [][MembershipNext]_vars

\* Everything that sends on a connection's Send channel next to the
\* Unregister that closes it, in a hub with the default backpressure policy:
\* the control loop dispatching to a user, the reader answering a ping frame
\* and callers of SendMessage. (The broadcast worker's sends are in FanoutNext.)
QueueNext ==
    \/ Lifecycle
    \/ \E t \in UserTargets : Publish(t[1], t[2])
    \/ RunBroadcast
    \/ \E id \in IDs : LoopSend(id)
    \/ LoopSendDone
    \/ \E k \in Conns : HandleMessage(k, "{\"type\":\"ping\"}")
    \/ \E k \in Conns : SendMessage(k)

QueueSpec == Init /\ [][QueueNext]_vars

\* Teardown of connections in either heartbeat mode, in a hub with room for
\* one connection that may be shut down: readers return, the loop registers,
\* rejects and unregisters, writers return.
TeardownInit == \E cfg \in PingModeConfigs : NewHub(cfg)

TeardownNext ==
    \/ Lifecycle
    \/ \E k \in Conns : WritePumpFails(k)
    \/ \E k \in Conns : WritePumpClosed(k)
    \/ CloseCancel
    \/ CloseSweep
    \/ RunDone

TeardownSpec == TeardownInit /\ [][TeardownNext]_vars

\* Client messages: connections come and go and their readers handle chat
\* and notification frames, which they hand to the dispatch queue.
ForwardNext ==
    \/ Lifecycle
    \/ \E k \in Conns, frame \in ClientFrames : HandleMessage(k, frame)

ForwardSpec == Init /\ [][ForwardNext]_vars

\* Inbound frames: connections come and go, their readers handle frames,
\* time passes.
FrameNext ==
    \/ Lifecycle
    \/ \E k \in Conns, frame \in Frames : HandleMessage(k, frame)
    \/ Elapse

FrameSpec == Init /\ [][FrameNext]_vars

\* A hub built by NewHub from any of HubConfigInputs, with connections
\* coming and going.
ConfigInit == \E cfg \in HubConfigInputs : NewHub(cfg)

ConfigSpec == ConfigInit /\ [][Lifecycle]_vars

\* The functions of the package that only compute a result, called with
\* every argument of a bounded set.
CallNext ==
    \/ \E cfg \in FirstCall(ConfigInputs) : ValidateConfigCall(cfg)
    \/ \E in \in FirstCall(HealthInputs) : HealthCheckCall(in)
    \/ \E configs \in FirstCall(MergeInputs) : MergeConfigCall(configs)

CallSpec == Init /\ [][CallNext]_vars

\* ---------------------------------------------------------------- claims
\* The real (non-anonymous) user ids.
Users == {u \in UserIDs : u # ""}
\* The connection objects HandleWebSocket has created.
Created == {k \in Conns : connID[k] # <<>>}
\* The connections whose Register / Unregister the control loop has processed.
RegProcessed == {k \in Conns : regRes[k] # "none"}
UnregProcessed == {k \in Conns : unregRes[k] # "none"}
\* The connections of S have pairwise different ids.
DistinctIDs(S) == \A a, b \in S : a # b => connID[a] # connID[b]
\* This step is the control loop receiving k from hub.register / hub.unregister.
ProcessesRegister(k) ==
    register # <<>> /\ Head(register) = k /\ register' = Tail(register)
ProcessesUnregister(k) ==
    unregister # <<>> /\ Head(unregister) = k /\ unregister' = Tail(unregister)
\* No JoinGroup / LeaveGroup call stands between its two critical sections.
NoGroupCallInProgress ==
    /\ apiPc.at = "idle"
    /\ \A k \in Conns : readerPc[k].at \notin {"join", "leave"}
\* The shards that hold id.
ShardsHolding(id) == {s \in Shards : id \in DOMAIN shardConns[s]}

\* C1: in every reachable state neither the number of entries of the id map
\* nor the connection counter exceeds MaxConnections.
C1_CountNeverExceedsMax ==
    /\ Cardinality(DOMAIN connections) <= config.MaxConnections
    /\ connectionCount <= config.MaxConnections

\* C1 witness: the hub is full and a further registration has been turned away.
C1_Witness ==
    /\ connectionCount = config.MaxConnections
    /\ Cardinality(DOMAIN connections) = config.MaxConnections
    /\ \E k \in Conns : regRes[k] = "rejected"

\* C2: a Register processed while the counter is >= MaxConnections closes the
\* connection's transport and leaves the id map, the shard table, the user
\* index, the group index and the counter unchanged.
C2_RejectChangesNothing ==
    [][\A k \in Conns :
          (ProcessesRegister(k) /\ connectionCount >= config.MaxConnections)
          => /\ transportClosed'[k]
             /\ UNCHANGED <<connections, shardConns, userConnections,
                            groupConnections, connectionCount>>]_vars

\* C2 witness: a registration was rejected while the group index was not
\* empty, and the rejected connection's transport is closed.
C2_Witness ==
    \E k \in Conns :
        /\ regRes[k] = "rejected"
        /\ transportClosed[k]
        /\ readerPc[k].at = "read"
        /\ connections # EmptyMap
        /\ groupConnections # EmptyMap

C4_ExactlyOneShard ==
    \A id \in IDs :
        /\ id \in DOMAIN connections
           => /\ ShardsHolding(id) = {shardIndex(id)}
              /\ shardConns[shardIndex(id)][id] = connections[id]
        /\ id \notin DOMAIN connections => ShardsHolding(id) = {}

\* C4 witness: a connection sits in a shard other than shard 0 after another
\* registration has been removed.
C4_Witness ==
    /\ \E id \in DOMAIN connections : shardIndex(id) # 0 /\ ShardsHolding(id) = {shardIndex(id)}
    /\ \E k \in Conns : unregRes[k] = "removed"

\* C5: the user index entry of u contains id c if and only if c is registered
\* and the registered connection with id c has user id u.
C5_UserIndexIffRegistered ==
    \A u \in Users, id \in IDs :
        (u \in DOMAIN userConnections /\ id \in userConnections[u])
        <=> (id \in DOMAIN connections /\ UserID(connections[id]) = u)

\* C6: the group index entry of g contains the id of connection c if and only
\* if g is in c's own group set. Stated for the states in which no JoinGroup /
\* LeaveGroup call is half done and the connections have distinct ids.
C6_GroupIndexIffGroupSet ==
    (NoGroupCallInProgress /\ DistinctIDs(Created))
    => \A k \in Created, g \in GroupNames :
          (g \in DOMAIN groupConnections /\ connID[k] \in groupConnections[g])
          <=> g \in Groups[k]

\* C7: an Unregister processed for a connection a second time, or for a
\* connection that was never registered, changes no index and no counter, and
\* no outbound queue is ever closed twice.
C7_UnregisterIdempotent ==
    [][/\ \A k \in Conns :
             (ProcessesUnregister(k) /\ (unregRes[k] # "none" \/ regRes[k] # "accepted"))
             => UNCHANGED <<connections, shardConns, userConnections,
                            groupConnections, connectionCount>>
       /\ ~panicked']_vars

\* C8: once the loop has processed the Unregister of a connection, the
\* connection's id is in no index and its outbound queue is closed, in that
\* state and in every later one.
C8_RemovedIsTerminal ==
    \A k \in Conns :
        unregRes[k] # "none"
        => /\ connID[k] \notin DOMAIN connections
           /\ ShardsHolding(connID[k]) = {}
           /\ \A u \in DOMAIN userConnections : connID[k] \notin userConnections[u]
           /\ \A g \in DOMAIN groupConnections : connID[k] \notin groupConnections[g]
           /\ sendClosed[k]

\* C9: the control loop processes every connection's Register before that
\* connection's Unregister.
C9_RegisterBeforeUnregister ==
    \A k \in Conns : unregRes[k] # "none" => regRes[k] # "none"

\* C10: the id map, the user index and the group index are written by the
\* control loop only: every step that changes one of them is the loop
\* receiving from hub.register or hub.unregister.
C10_OnlyLoopWritesIndices ==
    [][(connections' # connections \/ userConnections' # userConnections
            \/ groupConnections' # groupConnections)
       => \E k \in Conns : ProcessesRegister(k) \/ ProcessesUnregister(k)]_vars

\* The message the control loop has just finished dispatching to the entry
\* of an index (sendToUser / sendToGroup is about to return).
DispatchOver == loopPc.at = "send" /\ loopPc.todo = {}

\* C11: a message with to = u is enqueued on the outbound queue of every
\* connection that is registered, alive and owned by u, unless its queue was
\* full, and on the outbound queue of no connection owned by another user.
C11_UserDelivery ==
    /\ \A p \in sent : p[1].to # "" => UserID(p[2]) = p[1].to
    /\ (DispatchOver /\ loopPc.data.to # "")
       => \A k \in Registered :
             (IsAlive[k] /\ UserID(k) = loopPc.data.to)
             => (<<loopPc.data, k>> \in sent \/ <<loopPc.data, k>> \in dropped)

\* Connection k counts as a member of g: g is in its own group set, or its
\* reader is inside a leave of g that has not reached the group index yet.
MemberOf(k, g) ==
    \/ g \in Groups[k]
    \/ readerPc[k].at = "leave" /\ readerPc[k].g = g

\* This step is the control loop taking a message addressed to a group only.
TakesGroupMessage ==
    /\ loopPc.at = "select"
    /\ loopPc'.at = "send"
    /\ loopPc'.data.to = ""

\* C12: a message with group = g and no to goes only to connections that are
\* registered, alive and members of g when the loop takes it, and to every
\* such connection: the recipients the dispatch goes through resolve to
\* members only and include every member, and the payload is enqueued only
\* on registered, alive connections among those recipients.
C12_GroupDelivery ==
    [][/\ TakesGroupMessage
          => /\ \A id \in loopPc'.todo :
                   id \in DOMAIN connections
                   => MemberOf(connections[id], loopPc'.data.group)
             /\ \A k \in Registered :
                   (/\ IsAlive[k]
                    /\ loopPc'.data.group \in Groups[k]
                    /\ readerPc[k].at \notin {"join", "leave"})
                   => connID[k] \in loopPc'.todo
       /\ \A p \in sent' \ sent :
             (p[1].to = "" /\ p[1].group # "")
             => /\ p[2] \in Registered
                /\ IsAlive[p[2]]
                /\ \/ connID[p[2]] \in loopPc.todo
                   \/ loopPc.at = "wait" /\ loopPc.conn = p[2]]_vars

\* C13: a message with neither to nor group reaches every connection that
\* stays registered and alive, in every shard, unless that connection's own
\* queue is full.  Once the loop has discarded the job of a shard nothing
\* carries the message to that shard any more, so the claim requires that the
\* loop never discards the job of a shard holding a registered, alive
\* connection.
C13_BroadcastReachesAll ==
    [][\A job \in lostJobs' \ lostJobs :
          \A k \in Registered :
             IsAlive[k] => shardIndex(connID[k]) # job[2]]_vars

\* What connection k has been handed, oldest first: the frames its writer
\* wrote and then its outbound queue.
Outbound(k) == written[k] \o Send[k]

TrySendCalled(conn) ==
    /\ loopPc.at = "send"
    /\ loopPc.data.to # ""
    /\ IsAlive[conn]
    /\ loopPc'.at \in {"send", "wait"}
    /\ \E id \in loopPc.todo \ loopPc'.todo :
          id \in DOMAIN connections /\ connections[id] = conn

\* C15: with DropOnFull, trySend is one non-blocking step.  With room the
\* payload is appended, the drop callback is not invoked and the transport is
\* not closed; with a full queue the queue is unchanged, the drop callback is
\* invoked exactly once and the transport is closed iff CloseOnBackpressure.
C15_DropOnFull ==
    [][\A conn \in Conns :
          (config.DropOnFull /\ TrySendCalled(conn))
          => /\ loopPc'.at = "send"
             /\ IF Len(Send[conn]) < MessageBufferSize
                THEN /\ Send'[conn] = Append(Send[conn], loopPc.data)
                     /\ onDropCalls' = onDropCalls
                     /\ transportClosed' = transportClosed
                ELSE /\ Send'[conn] = Send[conn]
                     /\ onDropCalls' = onDropCalls + 1
                     /\ transportClosed'[conn]
                           = (transportClosed[conn] \/ config.CloseOnBackpressure)]_vars

\* The outcomes of trySend(conn, loopPc.data): the payload was enqueued, or
\* the attempt was given up.
Enqueued(conn) ==
    /\ Send'[conn] = Append(Send[conn], loopPc.data)
    /\ onDropCalls' = onDropCalls
    /\ transportClosed' = transportClosed

GivenUp(conn) ==
    /\ Send'[conn] = Send[conn]
    /\ onDropCalls' = onDropCalls + 1
    /\ transportClosed'[conn] = (transportClosed[conn] \/ config.CloseOnBackpressure)

\* The step ends the wait of a trySend(conn, loopPc.data) of the loop.
TrySendWaitEnds(conn) ==
    /\ loopPc.at = "wait"
    /\ loopPc.conn = conn
    /\ loopPc'.at # "wait"

\* C16: without DropOnFull every trySend ends in exactly one of two ways: the
\* payload was enqueued (no drop callback, no close), or the send timeout
\* fired (payload not enqueued, drop callback once, transport closed iff
\* CloseOnBackpressure).  A call either enqueues at once or waits, touching
\* nothing, and the wait ends in one of the two ways.
C16_BoundedWait ==
    [][\A conn \in Conns :
          /\ (~config.DropOnFull /\ TrySendCalled(conn))
             => \/ loopPc'.at = "send" /\ Enqueued(conn)
                \/ /\ loopPc'.at = "wait"
                   /\ loopPc'.conn = conn
                   /\ Len(Send[conn]) = MessageBufferSize
                   /\ UNCHANGED <<Send, onDropCalls, transportClosed>>
          /\ (~config.DropOnFull /\ TrySendWaitEnds(conn))
             => /\ loopPc'.at = "send"
                /\ Enqueued(conn) \/ GivenUp(conn)
                /\ ~(Enqueued(conn) /\ GivenUp(conn))]_vars

\* A worker is held in trySend by a connection whose queue is full.
WorkerHeld ==
    \E w \in Workers : workerPc[w].at = "wait" /\ Len(Send[workerPc[w].conn]) = MessageBufferSize

\* C17: a connection whose queue stays full never prevents delivery to other
\* connections.  While a worker is held by a full queue, the message of a
\* fanout job that the loop discards can no longer reach the connections of
\* that job's shard, so the claim requires that no such job is discarded for
\* a shard holding another registered, alive connection with room.
C17_SlowConsumerIsolation ==
    [][WorkerHeld
       => \A job \in lostJobs' \ lostJobs :
             \A k \in Registered \ {workerPc[w].conn : w \in {v \in Workers : workerPc[v].at = "wait"}} :
                (IsAlive[k] /\ shardIndex(connID[k]) = job[2])
                => Len(Send[k]) = MessageBufferSize]_vars

\* C18: the control loop blocks only on its own event queues: while it
\* processes an event it is never inside trySend's select, waiting for room
\* in a recipient's outbound queue or for the send timeout.
C18_LoopBlocksOnlyOnEvents == loopPc.at # "wait"

\* The step is one turn of enqueueBroadcastAll's loop over the shards.
FanoutTurn == loopPc.at = "fanout" /\ loopPc' # loopPc

\* C19: enqueueBroadcastAll never blocks.  It starts at shard 0 and visits
\* every shard once, in one step each: with room in the job queue exactly one
\* job, of that shard, is appended and nothing is dropped; with a full job
\* queue that shard's job is dropped, the queue is unchanged, and the loop
\* goes on to the next shard or back to its select all the same.
C19_FanoutNeverBlocks ==
    [][/\ (loopPc.at = "select" /\ loopPc'.at = "fanout") => loopPc'.shard = 0
       /\ FanoutTurn
          => /\ IF Len(broadcastJobs) < MessageQueueSize
                THEN /\ broadcastJobs' = Append(broadcastJobs,
                                                [shard |-> loopPc.shard, data |-> loopPc.data])
                     /\ lostJobs' = lostJobs
                ELSE /\ broadcastJobs' = broadcastJobs
                     /\ lostJobs' = lostJobs \cup {<<loopPc.data, loopPc.shard>>}
             /\ IF loopPc.shard < LastShard
                THEN /\ loopPc'.at = "fanout"
                     /\ loopPc'.shard = loopPc.shard + 1
                     /\ loopPc'.data = loopPc.data
                ELSE loopPc'.at = "select"]_vars

\* Of one message, the job of one shard is in the job queue and the job of
\* another shard was dropped, and the loop is back at its select.
C19_Witness ==
    /\ loopPc.at = "select"
    /\ \E job \in lostJobs :
          \E i \in 1..Len(broadcastJobs) :
             broadcastJobs[i].data = job[1] /\ broadcastJobs[i].shard # job[2]

\* The step is a heartbeat tick that marks a connection.
TickMarks == \E k \in Conns : IsAlive[k] /\ ~IsAlive'[k]

\* C20: a heartbeat tick marks every registered connection whose last
\* heartbeat is older than ConnectionTimeout as not alive and closes its
\* transport, and leaves the registered connections within the timeout as
\* they were.
C20_HeartbeatScan ==
    [][TickMarks
       => \A k \in Registered :
             IF now - LastPing[k] > ConnectionTimeout
             THEN ~IsAlive'[k] /\ transportClosed'[k]
             ELSE IsAlive'[k] = IsAlive[k] /\ transportClosed'[k] = transportClosed[k]]_vars

\* After a tick: one registered connection is past the timeout, marked not
\* alive and closed, and another, exactly at the timeout, is alive and open.
C20_Witness ==
    \E k, j \in Registered :
       /\ now - LastPing[k] > ConnectionTimeout
       /\ ~IsAlive[k]
       /\ transportClosed[k]
       /\ now - LastPing[j] = ConnectionTimeout
       /\ IsAlive[j]
       /\ ~transportClosed[j]

\* Something can still hand the control loop an Unregister event that removes
\* the id of k: a reader with that id that has not returned, or such an
\* event waiting in h.unregister.
RemovalPending(k) ==
    \/ \E j \in Conns : connID[j] = connID[k] /\ readerPc[j].at \notin {"none", "done"}
    \/ \E i \in 1..Len(unregister) : connID[unregister[i]] = connID[k]

\* C21: every registered connection whose last heartbeat is older than
\* ConnectionTimeout is removed by the next tick and the unregistration it
\* triggers.  The tick only closes the transport; the removal is done by the
\* Unregister event the connection's reader sends when it returns, so the
\* claim requires that for a registered connection marked by the tick that
\* event is still to come.
C21_ExpiredIsRemoved ==
    \A k \in Registered :
       (~IsAlive[k] /\ now - LastPing[k] > ConnectionTimeout) => RemovalPending(k)

\* The worker waits in its range over h.broadcastJobs and no job will come:
\* the channel is empty, its only sender, the loop, has returned, and no
\* statement of the package closes the channel.
WorkerWaitsForEver ==
    /\ \E w \in Workers : Started(w) /\ workerPc[w].at = "idle"
    /\ broadcastJobs = <<>>
    /\ loopPc.at = "returned"

\* C22: after Close the control loop and every worker eventually stop
\* running, so after Close has returned there is no state in which a worker
\* is left waiting for ever.
C22_AllStopAfterClose == closePc = "returned" => ~WorkerWaitsForEver

\* C23: after Close has returned every connection in the registry has a
\* closed transport: none is registered with an open transport after
\* shutdown, whether its Register event was queued or being processed when
\* Close ran.
C23_ClosedAfterShutdown ==
    closePc = "returned" => \A k \in Registered : transportClosed[k]

\* ValidateConfig was called with a configuration the claim describes as
\* valid: positive MaxConnections, MessageBufferSize and MessageQueueSize and
\* a positive HeartbeatInterval below ConnectionTimeout.
ValidAsClaimed(cfg) ==
    /\ cfg.MaxConnections > 0
    /\ cfg.HeartbeatInterval > 0
    /\ cfg.HeartbeatInterval < cfg.ConnectionTimeout
    /\ cfg.MessageBufferSize > 0
    /\ cfg.MessageQueueSize > 0

\* C30: ValidateConfig returns no error for every configuration with
\* positive MaxConnections, positive HeartbeatInterval below
\* ConnectionTimeout, positive MessageBufferSize and MessageQueueSize,
\* whatever the other fields are, and returns an error when MaxConnections is
\* 0 or HeartbeatInterval >= ConnectionTimeout.
C30_ValidateConfig ==
    call.fn = "ValidateConfig"
    => /\ ValidAsClaimed(call.arg) => call.ret = "nil"
       /\ (\/ call.arg.MaxConnections = 0
           \/ call.arg.HeartbeatInterval >= call.arg.ConnectionTimeout)
          => call.ret # "nil"

\* C24: configuration is validated at construction: the control loop and
\* the workers of a hub never run with a configuration that ValidateConfig
\* rejects, so a hub whose loop has registered a connection has a
\* configuration that ValidateConfig accepts.
C24_ValidatedAtConstruction ==
    Registered # {} => ValidateConfig(config) = "nil"

\* C25: a registered connection whose transport has been closed, whatever
\* closed it, is Draining: its alive flag is false until it is removed.  So
\* every registered connection with alive = true has an open transport.
C25_ActiveHasOpenTransport ==
    \A k \in Registered : IsAlive[k] => ~transportClosed[k]

\* The step is handleMessage run by connection k on a frame that does not
\* parse as a message.
HandlesMalformed(k) ==
    /\ call' # call
    /\ call'.fn = "handleMessage"
    /\ call'.conn = k
    /\ Unmarshal(call'.arg).err

\* C26: a malformed inbound frame is discarded: handling it changes none of
\* the connection's groups, metadata, liveness timestamp or alive flag, no
\* hub index, and no queue, and the connection stays registered and keeps
\* reading.
C26_MalformedDiscarded ==
    [][\A k \in Conns :
          HandlesMalformed(k)
          => /\ UNCHANGED <<Groups, Metadata, LastPing, IsAlive>>
             /\ UNCHANGED hubVars
             /\ UNCHANGED <<Send, register, unregister, broadcast, broadcastJobs>>
             /\ UNCHANGED <<transportClosed, sendClosed, panicked>>
             /\ readerPc'[k].at = "read"]_vars

\* A registered connection whose clock has moved on since its last heartbeat
\* has just handled a frame that fails to parse after its type, ping, was
\* decoded; it still reads.
C26_Witness ==
    /\ call.fn = "handleMessage"
    /\ Unmarshal(call.arg).err
    /\ Unmarshal(call.arg).Type = "ping"
    /\ call.conn \in Registered
    /\ LastPing[call.conn] < now
    /\ readerPc[call.conn].at = "read"

\* C27: connection ids are unique: any two connections created by
\* HandleWebSocket have different ids, also when both were created at the
\* same clock reading.
C27_UniqueIds ==
    \A a, b \in Created : a # b => connID[a] # connID[b]

\* The step in which a LeaveGroup of a group the connection had joined
\* returns: its c.Hub.mu section.
LeaveGroupReturns == apiPc.at = "leave" /\ apiPc.member /\ apiPc' = NoOp

\* The step in which a LeaveGroup of a group the connection had joined runs
\* its c.mu section.
LeaveGroupStarts == apiPc.at = "idle" /\ apiPc'.at = "leave" /\ apiPc'.member

\* Connection j is a member of group g in the index: its id is listed.
InIndex(index, g, j) == connID[j] \in IndexEntry(index, g)

\* The memberships of connection j in the groups of S are the same before
\* and after the step: its own group set holds the same groups of S, and for
\* those it holds the index lists it as before.
SameMemberships(j, S) ==
    \A g \in S : /\ (g \in Groups'[j]) = (g \in Groups[j])
                 /\ g \in Groups[j] =>
                        InIndex(groupConnections', g, j) = InIndex(groupConnections, g, j)

\* C28: when a connection c that joined group G leaves G, afterwards the
\* index entry of G does not list c and c's own group set does not hold G,
\* the index has no entry for G when c was its last member, and the
\* memberships of the other connections and of c in other groups are as
\* they were before the call.
C28_LeaveUndoesJoin ==
    [][/\ LeaveGroupStarts =>
            /\ SameMemberships(apiPc'.conn, ApiGroupNames \ {apiPc'.g})
            /\ \A j \in Created \ {apiPc'.conn} : SameMemberships(j, ApiGroupNames)
       /\ LeaveGroupReturns =>
            /\ ~InIndex(groupConnections', apiPc.g, apiPc.conn)
            /\ apiPc.g \notin Groups'[apiPc.conn]
            /\ IndexEntry(groupConnections, apiPc.g) \subseteq {connID[apiPc.conn]}
                  => apiPc.g \notin DOMAIN groupConnections'
            /\ SameMemberships(apiPc.conn, ApiGroupNames \ {apiPc.g})
            /\ \A j \in Created \ {apiPc.conn} : SameMemberships(j, ApiGroupNames)
      ]_vars

\* C29: HealthCheck reports unhealthy exactly when the hub has been shut
\* down; otherwise warning exactly when the connection count is at least 90%
\* of MaxConnections, and healthy otherwise.
C29_HealthStatus ==
    call.fn = "HealthCheck" =>
        call.ret = IF call.arg.cancelled THEN "unhealthy"
                   ELSE IF 10 * call.arg.totalConnections >= 9 * call.arg.maxConnections
                        THEN "warning"
                   ELSE "healthy"

\* A field of a Config is set when it differs from its zero value.
IsSet(cfg, f) == cfg[f] # ZeroConfig[f]

\* The last of configs[2..n] that sets field f, 1 when none does.
LastSetting(configs, f) ==
    LET S == {i \in 2 .. Len(configs) : IsSet(configs[i], f)}
    IN  IF S = {} THEN 1 ELSE CHOOSE i \in S : \A j \in S : j <= i

\* C31: MergeConfig lets a later configuration override an earlier one only
\* for the fields the later one sets: each field of the result is that of the
\* last later configuration that sets it, and that of the first configuration
\* when every later one leaves it at its zero value.
C31_MergeKeepsUnset ==
    (/\ call.fn = "MergeConfig"
     /\ Len(call.arg) >= 2
     /\ \A i \in 1 .. Len(call.arg) : call.arg[i] # NilConfig)
    => \A f \in DOMAIN ZeroConfig :
          call.ret[f] = call.arg[LastSetting(call.arg, f)][f]

\* C32: nothing sends on a connection's Send channel after Unregister has
\* closed it: no send on a closed channel (which panics) is ever made.
C32_NoSendOnClosed == ~panicked

\* The control loop is inside sendToGroup(g, data): it has looked up
\* h.groupConnections[g] and is ranging over it, with entries still to come
\* or inside a turn of the range (a trySend that waits for room).
DispatchReadsGroup(g) ==
    /\ \/ loopPc.at = "wait"
       \/ loopPc.at = "send" /\ loopPc.todo # {}
    /\ loopPc.data.to = ""
    /\ loopPc.data.group = g

\* The step is the c.Hub.mu section of reader k's handleJoinGroup or
\* handleLeaveGroup for group g: the write to h.groupConnections[g].
ReaderWritesGroup(k, g) ==
    /\ readerPc[k].at \in {"join", "leave"}
    /\ readerPc[k].g = g
    /\ readerPc'[k].at = "read"

\* C33: a read of the group index made by the control loop while it
\* dispatches a targeted message and a write to that index by a reader
\* thread are never in progress at the same time.
C33_DispatchExcludesWrites ==
    [][\A k \in Conns, g \in GroupNames :
          ReaderWritesGroup(k, g) => ~DispatchReadsGroup(g)]_vars

\* C34: whenever the control loop is not in the middle of a Register or an
\* Unregister (each is one step here), GetConnectionCount() equals the number
\* of entries of the id map.
C34_CountIsMapSize == GetConnectionCount = Cardinality(DOMAIN connections)

\* The writer of k waits in its select and nothing will wake it: it has no
\* ticker (EnableGlobalPing), c.Send is empty and open, the connection is not
\* registered and not waiting to be (so no dispatch will reach it), and no
\* Unregister of it is to come (its reader has returned and its event has
\* been consumed), so nothing will close c.Send.
WriterWaitsForEver(k) ==
    /\ writerPc[k] = "run"
    /\ config.EnableGlobalPing
    /\ Send[k] = <<>>
    /\ ~sendClosed[k]
    /\ k \notin Registered
    /\ \A i \in 1 .. Len(register) : register[i] # k
    /\ readerPc[k].at = "done"
    /\ \A i \in 1 .. Len(unregister) : unregister[i] # k

\* C35: once the transport of a connection handed to the hub is closed, its
\* reader and its writer both eventually return, in either heartbeat mode
\* and whether the registration was accepted or rejected: no connection with
\* a closed transport is left with a writer that waits for ever.
C35_PumpsTerminate ==
    \A k \in Conns : transportClosed[k] => ~WriterWaitsForEver(k)

\* The step is handleMessage run by connection k that puts a message on the
\* dispatch queue.
ForwardsFrame(k) ==
    /\ call' # call
    /\ call'.fn = "handleMessage"
    /\ call'.conn = k
    /\ broadcast' # broadcast

\* C39: every message that reaches the dispatch queue from an inbound client
\* frame carries from equal to the user id of the connection it was read on,
\* whatever from the frame contained: the message is determined by the
\* frame's type, to and group and the connection.
C39_SenderNotSpoofed ==
    [][\A k \in Conns :
          ForwardsFrame(k)
          => LET msg == Unmarshal(call'.arg)
             IN  broadcast' = Append(broadcast,
                                     [type |-> msg.Type, seq |-> 0, from |-> UserID(k),
                                      to |-> msg.To, group |-> msg.Group, data |-> ""])]_vars

\* A connection has handled a chat or notification frame whose from names
\* another user, and the message on the dispatch queue carries the
\* connection's own user id.
C39_Witness ==
    /\ call.fn = "handleMessage"
    /\ Unmarshal(call.arg).From \notin {"", UserID(call.conn)}
    /\ Len(broadcast) = 1
    /\ broadcast[1].from = UserID(call.conn)
    /\ broadcast[1].to = Unmarshal(call.arg).To
    /\ broadcast[1].group = Unmarshal(call.arg).Group

\* C40: an inbound chat or notification frame is forwarded to the dispatch
\* queue only when it names a target, to or group.
C40_ForwardNeedsTarget ==
    [][\A k \in Conns :
          ForwardsFrame(k)
          => (Unmarshal(call'.arg).To # "" \/ Unmarshal(call'.arg).Group # "")]_vars

\* A broadcast payload: a dispatched message with neither to nor group.
IsBroadcast(p) == p.type = "chat" /\ p.to = "" /\ p.group = ""

\* C37: broadcasts that are enqueued for the same connection are in its
\* outbound queue, and are written by its writer, in the order in which the
\* control loop dispatched them (the order of seq), however many broadcast
\* workers the hub has started.
C37_BroadcastOrder ==
    \A k \in Conns :
       \A i, j \in 1..Len(Outbound(k)) :
          (/\ i < j
           /\ IsBroadcast(Outbound(k)[i])
           /\ IsBroadcast(Outbound(k)[j]))
          => Outbound(k)[i].seq < Outbound(k)[j].seq

\* C38: a message with both to and group set is routed by to: its payload is
\* enqueued only on alive connections owned by user to, so a member of the
\* group that is owned by another user is handed nothing.
C38_ToTakesPrecedence ==
    [][\A p \in sent' \ sent :
          (p[1].to # "" /\ p[1].group # "")
          => IsAlive[p[2]] /\ UserID(p[2]) = p[1].to]_vars

\* A step the control loop takes inside the handler of a dispatched message:
\* a turn of sendToUser / sendToGroup, the end of a trySend that waited, a
\* turn of enqueueBroadcastAll, or the return to the select.
LoopContinues ==
    \/ \E id \in IDs : LoopSend(id)
    \/ \E id \in IDs : LoopSkipDeleted(id)
    \/ LoopWaitSend
    \/ LoopWaitTimeout
    \/ LoopSendDone
    \/ LoopFanout

\* C36: the control loop always comes back to its select: whenever it is
\* inside the handler of an event, whatever the workers, readers and writers
\* hold or wait for, the loop has a next step to take, so no state is reached
\* in which it stays inside the handler for ever.
C36_LoopReturns == loopPc.at # "select" => ENABLED LoopContinues

====
